---- MODULE Spec2Model ----
(***************************************************************************)
(* A model of four w3af plugins:                                           *)
(*   plugins/audit/global_redirect.py   (the redirect classifier)          *)
(*   plugins/crawl/wordnet.py           (candidate words, mutants, crawl)  *)
(*   plugins/evasion/reversed_slashes.py                                   *)
(*   plugins/infrastructure/hmap.py                                        *)
(* Text is modelled as sequences of one-character strings, so that         *)
(* startswith, split, replace and the regular expressions are computed     *)
(* character by character as Python computes them.                         *)
(***************************************************************************)
EXTENDS Integers, Sequences, FiniteSets, TLC

VARIABLES
    \* ---- global_redirect: one (mutant, response) pair being analysed
    pc,          \* position inside _analyze_result / _find_redirect
    response,    \* the HTTP response handed to _analyze_result
    mutant,      \* the fuzzed variable of the mutant that was sent
    evaluated,   \* the signals _find_redirect has evaluated so far, in order
    verdict,     \* what _find_redirect returned ("none" until it returns)
    kb,          \* kb.kb 'global_redirect' findings, in insertion order
    \* ---- wordnet: candidate words and mutant generation
    gpc,               \* "idle", or which wordnet method has just returned
    _wordnet_results,  \* the wn_results option
    word,              \* the word _search_wn was called with
    lexicon,           \* what the wordnet database answered for that word
    wn_result,         \* the list _search_wn returned
    seed,              \* the fuzzable request mutants are generated from
    mutants,           \* the mutants generated
    wn_error,          \* the call to the database that raised: "none", "sibling" (line 125) or "synsets" (line 129)
    loci_done,         \* how many (parameter, occurrence) pairs _generate_qs has gone through
    \* ---- one probing round: the mutants of a request sent by the worker pool
    round,             \* "none", "audit" (global_redirect) or "crawl" (wordnet)
    item,              \* where each mutant of the round is
    resp,              \* the response received for each mutant
    original_response, \* wordnet.crawl: the response to the unmutated request
    output_queue,      \* wordnet: the new fuzzable requests, in the order put
    failures,          \* the failed sends the pool has recorded
    aborted,           \* an exception has left the round
    \* ---- reversed_slashes: one request handed to modifyRequest
    epc,               \* "idle", "made" (a request exists) or "modified"
    url_objects,       \* the url_object instances, by identity
    request,           \* the HTTPRequest handed to modifyRequest
    new_req,           \* the HTTPRequest modifyRequest returned
    url_before,        \* url_string of the request's URL before the call
    \* ---- hmap: one plugin instance
    _run_hmap,         \* self._run_hmap
    _exec,             \* self._exec
    _genFpF,           \* self._genFpF
    outcomes,          \* how each discover call so far ended, in order
    test_server_log,   \* the calls of originalHmap.testServer, in order
    hmap_kb            \* what hmap has saved in kb.kb, in order

rvars == <<pc, response, mutant, evaluated, verdict, kb>>

gvars == <<gpc, _wordnet_results, word, lexicon, wn_result, seed, mutants, wn_error, loci_done>>

dvars == <<round, item, resp, original_response, output_queue, failures, aborted>>

evars == <<epc, url_objects, request, new_req, url_before>>

hvars == <<_run_hmap, _exec, _genFpF, outcomes, test_server_log, hmap_kb>>

vars == <<rvars, gvars, dvars, evars, hvars>>

(***************************************************************************)
(* Text helpers                                                            *)
(***************************************************************************)
UpperLetters ==
    <<"A", "B", "C", "D", "E", "F", "G", "H", "I", "J", "K", "L", "M",
      "N", "O", "P", "Q", "R", "S", "T", "U", "V", "W", "X", "Y", "Z">>

LowerLetters ==
    <<"a", "b", "c", "d", "e", "f", "g", "h", "i", "j", "k", "l", "m",
      "n", "o", "p", "q", "r", "s", "t", "u", "v", "w", "x", "y", "z">>

\* re.IGNORECASE compares characters after case folding
LowerChar(c) ==
    IF \E k \in 1..26 : UpperLetters[k] = c
    THEN LowerLetters[CHOOSE k \in 1..26 : UpperLetters[k] = c]
    ELSE c

\* str.startswith
StartsWith(s, p) ==
    /\ Len(p) <= Len(s)
    /\ \A k \in 1..Len(p) : s[k] = p[k]

\* the literal lit occurs in s at position i
LitAt(lit, s, i) ==
    /\ i >= 1
    /\ i + Len(lit) - 1 <= Len(s)
    /\ \A k \in 1..Len(lit) : s[i + k - 1] = lit[k]

\* the same, under re.IGNORECASE (lit is given in lower case)
LitAtCI(lit, s, i) ==
    /\ i >= 1
    /\ i + Len(lit) - 1 <= Len(s)
    /\ \A k \in 1..Len(lit) : LowerChar(s[i + k - 1]) = lit[k]

\* an unescaped pattern text matched at position i: "." is the regex wildcard
\* (any character but a newline), every other character of the test URLs is
\* an ordinary character
RegexAt(pat, s, i) ==
    /\ i >= 1
    /\ i + Len(pat) - 1 <= Len(s)
    /\ \A k \in 1..Len(pat) :
          IF pat[k] = "." THEN s[i + k - 1] # "\n" ELSE s[i + k - 1] = pat[k]

\* str.split(c): the pieces of s between the occurrences of c
RECURSIVE SplitFrom(_, _, _, _)
SplitFrom(s, c, start, i) ==
    IF i > Len(s) THEN << SubSeq(s, start, Len(s)) >>
    ELSE IF s[i] = c
         THEN << SubSeq(s, start, i - 1) >> \o SplitFrom(s, c, i + 1, i + 1)
         ELSE SplitFrom(s, c, start, i + 1)

Split(s, c) == SplitFrom(s, c, 1, 1)

\* the concatenation of a sequence of texts
RECURSIVE Concat(_)
Concat(ss) == IF ss = << >> THEN << >> ELSE Head(ss) \o Concat(Tail(ss))

\* the first position >= i of s that holds no blank (Len(s)+1 when none)
SkipSpaces(s, i) ==
    IF \E j \in i..Len(s) : s[j] # " "
    THEN CHOOSE j \in i..Len(s) : s[j] # " " /\ \A k \in i..(j - 1) : s[k] = " "
    ELSE Len(s) + 1

(***************************************************************************)
(* global_redirect                                                         *)
(***************************************************************************)
TEST_URLS ==
    { <<"h", "t", "t", "p", ":", "/", "/", "w", "w", "w", ".", "w", "3", "a", "f", ".", "o", "r", "g", "/">>,
      <<"/", "/", "w", "3", "a", "f", ".", "o", "r", "g">> }


\* response.getLowerCaseHeaders(): the header names folded to lower case
LowerName(n) ==
    CASE n = "Location" -> "location"
      [] n = "URI"      -> "uri"
      [] n = "Refresh"  -> "refresh"
      [] n = "Server"   -> "server"
      [] OTHER          -> n

getLowerCaseHeaders(headers) ==
    [k \in {LowerName(n) : n \in DOMAIN headers} |->
        headers[CHOOSE n \in DOMAIN headers : LowerName(n) = k]]

\* a variant that looks at the location header only
LocationOnlyRedirect(lheaders) ==
    /\ "location" \in DOMAIN lheaders
    /\ \E test_url \in TEST_URLS : StartsWith(lheaders["location"], test_url)

\* for header_name in ('location', 'uri'): ... header_value.startswith(test_url)
_30x_code_redirect(lheaders) ==
    \E header_name \in {"location", "uri"} :
        /\ header_name \in DOMAIN lheaders
        /\ \E test_url \in TEST_URLS : StartsWith(lheaders[header_name], test_url)

\* refresh.split('=', 1): the text after the first "=", when there is one
_refresh_redirect(lheaders) ==
    /\ "refresh" \in DOMAIN lheaders
    /\ LET refresh == lheaders["refresh"]
       IN  /\ \E i \in 1..Len(refresh) : refresh[i] = "="
           /\ LET i   == CHOOSE i \in 1..Len(refresh) :
                            refresh[i] = "=" /\ \A k \in 1..(i - 1) : refresh[k] # "="
                  url == SubSeq(refresh, i + 1, Len(refresh))
              IN  \E test_url \in TEST_URLS : StartsWith(url, test_url)

\* _meta_url_re = '.*?;URL=(.*)' with IGNORECASE | DOTALL, used with match():
\* group 1 is everything after the first ";URL="
MetaUrlKey == <<";", "u", "r", "l", "=">>

MetaUrlMatches(redir) == \E i \in 1..Len(redir) : LitAtCI(MetaUrlKey, redir, i)

MetaUrlGroup(redir) ==
    LET i == CHOOSE i \in 1..Len(redir) :
                 /\ LitAtCI(MetaUrlKey, redir, i)
                 /\ \A k \in 1..(i - 1) : ~LitAtCI(MetaUrlKey, redir, k)
    IN  SubSeq(redir, i + Len(MetaUrlKey), Len(redir))

\* dpCache.dpc.getDocumentParserFor raising w3afException is "no signal"
_meta_redirect(parser) ==
    /\ parser.ok
    /\ \E r \in 1..Len(parser.redirs) :
          /\ MetaUrlMatches(parser.redirs[r])
          /\ \E test_url \in TEST_URLS :
                StartsWith(MetaUrlGroup(parser.redirs[r]), test_url)

\* _script_re = '< *?script.*?>(.*?)< *?/ *?script *?>', IGNORECASE | DOTALL
ScriptWord == <<"s", "c", "r", "i", "p", "t">>

\* "< *?script" at position i: the position after it, or 0
OpenTagEnd(s, i) ==
    IF i <= Len(s) /\ s[i] = "<" /\ LitAtCI(ScriptWord, s, SkipSpaces(s, i + 1))
    THEN SkipSpaces(s, i + 1) + Len(ScriptWord)
    ELSE 0

\* "< *?/ *?script *?>" at position m: the position of its ">", or 0
CloseTagEnd(s, m) ==
    IF m <= Len(s) /\ s[m] = "<"
    THEN LET j1 == SkipSpaces(s, m + 1)
         IN  IF j1 <= Len(s) /\ s[j1] = "/"
             THEN LET j2 == SkipSpaces(s, j1 + 1)
                  IN  IF LitAtCI(ScriptWord, s, j2)
                      THEN LET j3 == SkipSpaces(s, j2 + Len(ScriptWord))
                           IN  IF j3 <= Len(s) /\ s[j3] = ">" THEN j3 ELSE 0
                      ELSE 0
             ELSE 0
    ELSE 0

\* _script_re.search(body).groups(): search() returns the leftmost match only
\* (start i, the opening tag's ">" at k, the closing tag at m, each the first
\* that lets the rest match), and the pattern has one group, so groups() holds
\* the text of one block
ScriptSearchGroups(s) ==
    LET opens  == {i \in 1..Len(s) : OpenTagEnd(s, i) > 0}
        gts    == {k \in 1..Len(s) : s[k] = ">"}
        closes == {m \in 1..Len(s) : CloseTagEnd(s, m) > 0}
        ks(i)  == {k \in gts : k >= OpenTagEnd(s, i) /\ \E m \in closes : m > k}
        starts == {i \in opens : ks(i) # {}}
    IN  IF starts = {} THEN << >>
        ELSE LET i == CHOOSE i \in starts : \A j \in starts : i <= j
                 k == CHOOSE k \in ks(i) : \A j \in ks(i) : k <= j
                 m == CHOOSE m \in closes : m > k /\ \A j \in closes : j > k => m <= j
             IN  << SubSeq(s, k + 1, m - 1) >>

\* script_code.split('\n'), then i.split(';') for every piece
SplitCode(script_code) ==
    LET lines == Split(script_code, "\n")
    IN  Concat([n \in 1..Len(lines) |-> Split(lines[n], ";")])

WindowLocation ==
    <<"w", "i", "n", "d", "o", "w", ".", "l", "o", "c", "a", "t", "i", "o", "n">>

LocationDot == <<"l", "o", "c", "a", "t", "i", "o", "n", ".">>

\* re.search('(window\.location|location\.).*' + url_group_re, line), where
\* url_group_re = '(%s)' % '|'.join(self.TEST_URLS): the test URLs are pasted
\* into the pattern unescaped
LineMatches(line) ==
    \E i \in 1..Len(line) : \E loc \in {WindowLocation, LocationDot} :
        /\ LitAt(loc, line, i)
        /\ \E j \in (i + Len(loc))..Len(line) : \E test_url \in TEST_URLS :
              RegexAt(test_url, line, j)

_javascript_redirect(body) ==
    LET groups == ScriptSearchGroups(body)
    IN  \E g \in 1..Len(groups) :
           LET code == SplitCode(groups[g])
           IN  \E n \in 1..Len(code) : LineMatches(code[n])


(***************************************************************************)
(* The responses the classifier is run on.  A body is a sequence of        *)
(* segments: script blocks (in two spellings of the tags) and HTML         *)
(* comments, each holding a few statements built from fragments.           *)
(***************************************************************************)
MaxSegs == 2
MaxHeaders == 2

FragText(f) ==
    CASE f = "LOC1" -> <<"w", "i", "n", "d", "o", "w", ".", "l", "o", "c", "a", "t", "i", "o", "n", "=">>
      [] f = "LOC2" -> <<"l", "o", "c", "a", "t", "i", "o", "n", ".", "h", "r", "e", "f", "=">>
      [] f = "URL1" -> <<"h", "t", "t", "p", ":", "/", "/", "w", "w", "w", ".", "w", "3", "a", "f", ".", "o", "r", "g", "/">>
      [] f = "URL2" -> <<"/", "/", "w", "3", "a", "f", ".", "o", "r", "g">>
      [] f = "URLX" -> <<"h", "t", "t", "p", ":", "/", "/", "w", "w", "w", "X", "w", "3", "a", "f", ".", "o", "r", "g", "/">>
      [] f = "URLO" -> <<"h", "t", "t", "p", ":", "/", "/", "o", "t", "h", "e", "r", ".", "o", "r", "g", "/">>
      [] f = "SEMI" -> <<";">>
      [] f = "NL"   -> <<"\n">>
      [] f = "TXT"  -> <<"x", "=", "1">>

Contents ==
    { << >>,
      <<"LOC1", "URL1">>,
      <<"LOC2", "URL2", "SEMI">>,
      <<"URL1", "LOC1">>,
      <<"LOC1", "SEMI", "URL1">>,
      <<"LOC2", "NL", "URL2">>,
      <<"TXT", "SEMI", "LOC1", "TXT", "URL2">>,
      <<"LOC1", "URLO">>,
      <<"LOC1", "URLX">> }

SegKinds == {"script", "script2", "comment"}

Segments == [kind : SegKinds, code : Contents]

RenderFrags(code) == Concat([n \in 1..Len(code) |-> FragText(code[n])])

RenderSeg(seg) ==
    CASE seg.kind = "script" ->
            <<"<", "s", "c", "r", "i", "p", "t", ">">> \o RenderFrags(seg.code)
            \o <<"<", "/", "s", "c", "r", "i", "p", "t", ">">>
      [] seg.kind = "script2" ->
            <<"<", " ", "S", "C", "R", "I", "P", "T", " ", "t", "y", "p", "e", "=", "a", ">">>
            \o RenderFrags(seg.code)
            \o <<"<", " ", "/", " ", "S", "c", "r", "i", "p", "t", " ", ">">>
      [] seg.kind = "comment" ->
            <<"<", "!", "-", "-">> \o RenderFrags(seg.code) \o <<"-", "-", ">">>

\* response.getBody() of a response whose document is the segments segs
RenderBody(segs) == Concat([n \in 1..Len(segs) |-> RenderSeg(segs[n])])

Bodies == UNION {[1..n -> Segments] : n \in 0..MaxSegs}

HeaderNames == {"Location", "location", "URI", "Refresh", "Server"}

HeaderValues ==
    { <<"h", "t", "t", "p", ":", "/", "/", "w", "w", "w", ".", "w", "3", "a", "f", ".", "o", "r", "g", "/", "e", "v", "i", "l">>,
      <<"/", "/", "w", "3", "a", "f", ".", "o", "r", "g">>,
      <<"h", "t", "t", "p", ":", "/", "/", "o", "t", "h", "e", "r", ".", "o", "r", "g", "/">>,
      <<"0", ";", "u", "r", "l", "=", "h", "t", "t", "p", ":", "/", "/", "w", "w", "w", ".", "w", "3", "a", "f", ".", "o", "r", "g", "/">>,
      <<"0", ";", "u", "r", "l", "=", "x", "=", "/", "/", "w", "3", "a", "f", ".", "o", "r", "g">>,
      <<"H", "T", "T", "P", ":", "/", "/", "W", "W", "W", ".", "W", "3", "A", "F", ".", "O", "R", "G", "/">> }

\* header lookup is case-insensitive: no two names of a response fold to the
\* same lower-case name
HeaderMaps ==
    UNION { [D -> HeaderValues] :
              D \in { D \in SUBSET HeaderNames :
                        /\ Cardinality(D) <= MaxHeaders
                        /\ \A a, b \in D : LowerName(a) = LowerName(b) => a = b } }

\* what the document parser gives: no parser for the content type, or the
\* meta-refresh directives of the document
ParserOutputs ==
    { [ok |-> FALSE, redirs |-> << >>],
      [ok |-> TRUE,  redirs |-> << >>],
      [ok |-> TRUE,  redirs |-> << <<"5", ";", "U", "r", "l", "=", "h", "t", "t", "p", ":", "/", "/", "w", "w", "w", ".", "w", "3", "a", "f", ".", "o", "r", "g", "/">> >>],
      [ok |-> TRUE,  redirs |-> << <<"0", ";", "U", "R", "L", "=", "h", "t", "t", "p", ":", "/", "/", "o", "t", "h", "e", "r", ".", "o", "r", "g", "/", ";", "U", "R", "L", "=", "/", "/", "w", "3", "a", "f", ".", "o", "r", "g">>,
                                  <<"/", "/", "w", "3", "a", "f", ".", "o", "r", "g">> >>] }

NoHeaders == [n \in {} |-> << >>]

RedirectScript == << [kind |-> "script", code |-> <<"LOC1", "URL1">>] >>

\* the responses: every header map with a plain or a redirecting body, and
\* every body without headers
Responses ==
    [headers : HeaderMaps, parser : ParserOutputs, segs : {<< >>, RedirectScript}]
    \cup [headers : {NoHeaders},
          parser  : {[ok |-> FALSE, redirs |-> << >>]},
          segs    : Bodies]


(***************************************************************************)
(* global_redirect.audit: the mutants of one fuzzable request, and the     *)
(* analysis of each response.  _find_redirect is an "or" chain, evaluated  *)
(* one operand at a time.                                                  *)
(***************************************************************************)
\* createMutants(freq, self.TEST_URLS) for a request with the one parameter
\* "url": one mutant for each test URL
AuditMutants == << [var |-> "url", value |-> 1], [var |-> "url", value |-> 2] >>

NoResponse ==
    [headers |-> NoHeaders, parser |-> [ok |-> FALSE, redirs |-> << >>], segs |-> << >>]

InitRedirect ==
    /\ pc = "send"
    /\ response = NoResponse
    /\ mutant = 0
    /\ evaluated = << >>
    /\ verdict = "none"
    /\ kb = << >>

\* self._has_no_bug(mutant): no finding is stored yet for the mutant's variable
_has_no_bug(var, findings) ==
    \A n \in 1..Len(findings) : findings[n].var # var

\* the rest of _analyze_result once _find_redirect has returned res
AnalyzeReturn(res) ==
    /\ verdict' = IF res THEN "True" ELSE "False"
    /\ pc' = "done"
    /\ kb' = IF res /\ _has_no_bug(AuditMutants[mutant].var, kb)
             THEN Append(kb, [var |-> AuditMutants[mutant].var, id |-> mutant])
             ELSE kb

\* send_mutant_no_follow(m) gives a response, which is handed to _analyze_result
SendMutant ==
    /\ pc = "send"
    /\ mutant < Len(AuditMutants)
    /\ mutant' = mutant + 1
    /\ \E r \in Responses : response' = r
    /\ evaluated' = << >>
    /\ verdict' = "none"
    /\ pc' = "30x"
    /\ UNCHANGED kb
    /\ UNCHANGED <<gvars, dvars, evars, hvars>>

\* a variant of the first operand that does not short-circuit
Eval30xNoShortCircuit ==
    /\ pc = "30x"
    /\ evaluated' = Append(evaluated, "30x")
    /\ pc' = "refresh"
    /\ UNCHANGED <<response, mutant, verdict, kb>>
    /\ UNCHANGED <<gvars, dvars, evars, hvars>>

Eval30x ==
    /\ pc = "30x"
    /\ evaluated' = Append(evaluated, "30x")
    /\ IF _30x_code_redirect(getLowerCaseHeaders(response.headers))
       THEN AnalyzeReturn(TRUE)
       ELSE pc' = "refresh" /\ UNCHANGED <<verdict, kb>>
    /\ UNCHANGED <<response, mutant>>
    /\ UNCHANGED <<gvars, dvars, evars, hvars>>

EvalRefresh ==
    /\ pc = "refresh"
    /\ evaluated' = Append(evaluated, "refresh")
    /\ IF _refresh_redirect(getLowerCaseHeaders(response.headers))
       THEN AnalyzeReturn(TRUE)
       ELSE pc' = "meta" /\ UNCHANGED <<verdict, kb>>
    /\ UNCHANGED <<response, mutant>>
    /\ UNCHANGED <<gvars, dvars, evars, hvars>>

EvalMeta ==
    /\ pc = "meta"
    /\ evaluated' = Append(evaluated, "meta")
    /\ IF _meta_redirect(response.parser)
       THEN AnalyzeReturn(TRUE)
       ELSE pc' = "javascript" /\ UNCHANGED <<verdict, kb>>
    /\ UNCHANGED <<response, mutant>>
    /\ UNCHANGED <<gvars, dvars, evars, hvars>>

EvalJavascript ==
    /\ pc = "javascript"
    /\ evaluated' = Append(evaluated, "javascript")
    /\ IF _javascript_redirect(RenderBody(response.segs))
       THEN AnalyzeReturn(TRUE)
       ELSE pc' = "http_equiv" /\ UNCHANGED <<verdict, kb>>
    /\ UNCHANGED <<response, mutant>>
    /\ UNCHANGED <<gvars, dvars, evars, hvars>>

\* the last operand, self._http_equiv_redirect(response): the class defines no
\* such method, so the attribute lookup raises AttributeError, which leaves
\* _find_redirect and _analyze_result
EvalHttpEquiv ==
    /\ pc = "http_equiv"
    /\ evaluated' = Append(evaluated, "http_equiv")
    /\ pc' = "error"
    /\ UNCHANGED <<response, mutant, verdict, kb>>
    /\ UNCHANGED <<gvars, dvars, evars, hvars>>

\* _analyze_result has returned: its locals are gone, the next mutant is due
AnalyzeDone ==
    /\ pc = "done"
    /\ pc' = "send"
    /\ response' = NoResponse
    /\ evaluated' = << >>
    /\ verdict' = "none"
    /\ UNCHANGED <<mutant, kb>>
    /\ UNCHANGED <<gvars, dvars, evars, hvars>>

(***************************************************************************)
(* wordnet: _search_wn                                                     *)
(***************************************************************************)
MaxSenses == 2

\* synset names as the database spells them
RawNames ==
    { <<"s", "u", "m", "m", "a", "r", "y", ".", "n", ".", "0", "1">>,
      <<"s", "u", "m", "m", "a", "r", "y", ".", "v", ".", "0", "1">>,
      <<"s", "h", "o", "r", "t", "_", "s", "u", "m", "m", "a", "r", "y", ".", "n", ".", "0", "1">>,
      <<"o", "u", "t", "l", "i", "n", "e", ".", "n", ".", "0", "1">> }

Words ==
    { <<"s", "u", "m", "m", "a", "r", "y">>,
      <<"S", "u", "m", "m", "a", "r", "y">>,
      <<"r", "e", "p", "o", "r", "t">>,
      << >>,
      <<"4", "2">> }

SeqUpTo(n, S) == UNION {[1..k -> S] : k \in 0..n}

\* a synset of the word: its name, and what hypernyms(), hyponyms(),
\* member_holonyms() and lemmas[0].antonyms() return, one after the other
Senses == [name : RawNames, related : SeqUpTo(1, RawNames)]

\* wn.synsets(word)[0].hypernyms()[0].hyponyms(): an IndexError when the word
\* has no synset or the first synset has no hypernym, else a list of synsets
SiblingAnswers ==
    {[failed |-> TRUE, names |-> << >>]}
    \cup [failed : {FALSE}, names : SeqUpTo(1, RawNames)]

\* the answers of the wordnet database for one word
Lexicons ==
    { l \in [sibling : SiblingAnswers, senses : SeqUpTo(MaxSenses, Senses)] :
        (l.senses = << >> \/ l.senses[1].related = << >>) => l.sibling.failed }

NoLexicon == [sibling |-> [failed |-> TRUE, names |-> << >>], senses |-> << >>]

Digits == {"0", "1", "2", "3", "4", "5", "6", "7", "8", "9"}

\* str.isdigit()
IsDigit(w) == w # << >> /\ \A k \in 1..Len(w) : w[k] \in Digits

\* str.replace(old, new) for a one-character old
ReplaceChar(s, old, new) == [k \in 1..Len(s) |-> IF s[k] = old THEN new ELSE s[k]]

\* lines 121-140: the sibling traversal inside try/except, then every synset
\* with its related synsets
CollectSynsets(lex) ==
    (IF lex.sibling.failed THEN << >> ELSE lex.sibling.names)
    \o Concat([n \in 1..Len(lex.senses) |->
                  << lex.senses[n].name >> \o lex.senses[n].related])

\* i.name.split('.')[0], then i.replace('_', ' ')
SurfaceWord(name) == ReplaceChar(Split(name, ".")[1], "_", " ")

Range(f) == {f[k] : k \in DOMAIN f}

\* list(set(result)): the elements in the order the set iterates them, which
\* the language leaves open
ListsOfSet(S) ==
    {p \in [1..Cardinality(S) -> S] : \A a, b \in 1..Cardinality(S) : p[a] = p[b] => a = b}

\* a variant that removes nothing
ListRemoveNothing(l, x) == l

\* list.remove(x): without the first occurrence of x
RECURSIVE ListRemove(_, _)
ListRemove(l, x) ==
    IF l = << >> THEN << >>
    ELSE IF Head(l) = x THEN Tail(l) ELSE << Head(l) >> \o ListRemove(Tail(l), x)

\* x put into the length-sorted list l after every element that is not longer
RECURSIVE InsertByLen(_, _)
InsertByLen(l, x) ==
    IF l = << >> THEN << x >>
    ELSE IF Len(Head(l)) <= Len(x)
         THEN << Head(l) >> \o InsertByLen(Tail(l), x)
         ELSE << x >> \o l

\* a variant that leaves the list in the order it came
UnrankedContest(result) == result

\* result.sort(sort_function): a stable sort on len()
RECURSIVE _popularity_contest(_)
_popularity_contest(result) ==
    IF result = << >> THEN << >>
    ELSE InsertByLen(_popularity_contest(SubSeq(result, 1, Len(result) - 1)),
                     result[Len(result)])

\* result[:n]
Take(l, n) == SubSeq(l, 1, IF n < Len(l) THEN n ELSE Len(l))

\* lines 115-119: a word that is empty or all digits is not looked up
Rejected(w) == w = << >> \/ IsDigit(w)

\* the lists _search_wn(word) can return when the database answers lex
_search_wn(w, lex, n) ==
    IF Rejected(w) THEN { << >> }
    ELSE LET synsets == CollectSynsets(lex)
             names   == [k \in 1..Len(synsets) |-> SurfaceWord(synsets[k])]
         IN  { Take(_popularity_contest(IF \E k \in 1..Len(uniq) : uniq[k] = w
                                        THEN ListRemove(uniq, w) ELSE uniq), n) :
                 uniq \in ListsOfSet(Range(names)) }

\* the values the wn_results option is set to
OptionValues == {2, 5}

NoSeed == [fname |-> << >>, qs |-> << >>]

InitGenerate ==
    /\ gpc = "idle"
    /\ _wordnet_results = 5
    /\ word = << >>
    /\ lexicon = NoLexicon
    /\ wn_result = << >>
    /\ seed = NoSeed
    /\ mutants = << >>
    /\ wn_error = "none"
    /\ loci_done = 0

(***************************************************************************)
(* wordnet: mutant generation                                              *)
(***************************************************************************)
\* str.replace(old, new), from position i on, for a non-empty old
RECURSIVE ReplaceFrom(_, _, _, _)
ReplaceFrom(s, old, new, i) ==
    IF i > Len(s) THEN << >>
    ELSE IF LitAt(old, s, i)
         THEN new \o ReplaceFrom(s, old, new, i + Len(old))
         ELSE << s[i] >> \o ReplaceFrom(s, old, new, i + 1)

\* str.replace(old, new); an empty old matches before every character and at
\* the end of the text
Replace(s, old, new) ==
    IF old = << >>
    THEN new \o Concat([k \in 1..Len(s) |-> << s[k] >> \o new])
    ELSE ReplaceFrom(s, old, new, 1)

\* sep.join(parts)
RECURSIVE Join(_, _)
Join(parts, sep) ==
    IF parts = << >> THEN << >>
    ELSE IF Len(parts) = 1 THEN parts[1]
         ELSE parts[1] \o sep \o Join(Tail(parts), sep)

\* url.getExtension(): the text after the last dot of the file name, empty
\* when the file name has no dot
getExtension(fname) ==
    LET parts == Split(fname, <<".">>[1])
    IN  IF Len(parts) = 1 THEN << >> ELSE parts[Len(parts)]

\* _get_filename(url): fname.replace('.' + ext, '')
_get_filename(fname) == Replace(fname, <<".">> \o getExtension(fname), << >>)

\* the name part computed at lines 220-226 of _generate_URL_from_wn_result
NamePart(fname) ==
    LET splitted_fname == Split(fname, <<".">>[1])
    IN  IF Len(splitted_fname) = 2
        THEN splitted_fname[1]
        ELSE Join(SubSeq(splitted_fname, 1, Len(splitted_fname) - 1), <<".">>)

\* _generate_URL_from_wn_result(None, None, result_set, fuzzable_request):
\* one copy of the request for every word, its file name being
\* fname.replace(name, set_item)
GenerateFnameMutants(fr, result_set) ==
    [k \in 1..Len(result_set) |->
        [fname |-> Replace(fr.fname, NamePart(fr.fname), result_set[k]),
         qs    |-> fr.qs,
         locus |-> <<0, 0>>]]

\* the query string with the value at occurrence i of parameter p set to v
SetValue(qs, p, i, v) ==
    [q \in 1..Len(qs) |->
        IF q = p
        THEN [name |-> qs[q].name,
              values |-> [j \in 1..Len(qs[q].values) |->
                             IF j = i THEN v ELSE qs[q].values[j]]]
        ELSE qs[q]]

\* createMutants(freq, mutant_str_list, fuzzableParamList=[name]): for every
\* occurrence of the parameter and every string, a copy of the request with
\* that one occurrence replaced; locus tells which call made the mutant
createMutants(fr, mutant_str_list, p, locus) ==
    Concat([i \in 1..Len(fr.qs[p].values) |->
              [k \in 1..Len(mutant_str_list) |->
                  [fname |-> fr.fname,
                   qs    |-> SetValue(fr.qs, p, i, mutant_str_list[k]),
                   locus |-> locus]]])

\* the (parameter, occurrence) pairs in the order _generate_qs visits them
Loci(qs) ==
    Concat([p \in 1..Len(qs) |-> [i \in 1..Len(qs[p].values) |-> <<p, i>>]])

\* the first locus whose value is looked up while the database is down for
\* it, 0 when there is none
FirstFailure(fr, down) ==
    LET failing == {n \in 1..Len(Loci(fr.qs)) :
                       LET l == Loci(fr.qs)[n]
                       IN  fr.qs[l[1]].values[l[2]] \in down
                             /\ ~Rejected(fr.qs[l[1]].values[l[2]])}
    IN  IF failing = {} THEN 0
        ELSE CHOOSE n \in failing : \A k \in failing : n <= k

\* _generate_qs from the n-th locus on: the lists of mutants it can yield when
\* the database answers prov[value] for a value, up to the locus stop where
\* _search_wn raises (0: it never does)
RECURSIVE GenerateQsFrom(_, _, _, _, _)
GenerateQsFrom(fr, prov, limit, n, stop) ==
    IF n > Len(Loci(fr.qs)) \/ n = stop THEN { << >> }
    ELSE LET p     == Loci(fr.qs)[n][1]
             i     == Loci(fr.qs)[n][2]
             value == fr.qs[p].values[i]
         IN  { createMutants(fr, wordnet_result, p, <<p, i>>) \o rest :
                 wordnet_result \in _search_wn(value, prov[value], limit),
                 rest \in GenerateQsFrom(fr, prov, limit, n + 1, stop) }

Filenames ==
    { <<"r", "e", "p", "o", "r", "t", ".", "v", "2", ".", "p", "d", "f">>,
      <<"r", "e", "p", "o", "r", "t">>,
      <<"i", "n", "d", "e", "x", ".", "h", "t", "m", "l">>,
      <<"a", ".", "a">>,
      << >> }

Summary == <<"s", "u", "m", "m", "a", "r", "y">>

Report == <<"r", "e", "p", "o", "r", "t">>

QueryStrings ==
    { << [name |-> "a", values |-> << Summary >>] >>,
      << [name |-> "a", values |-> << Summary, Report >>] >>,
      << [name |-> "a", values |-> << Report, Report >>] >>,
      << [name |-> "a", values |-> << Summary >>], [name |-> "b", values |-> << Report >>] >>,
      << [name |-> "a", values |-> << <<"4", "2">> >>] >> }

\* the database's answers used for query string values: one synset at most
QsLexicons == {l \in Lexicons : Len(l.senses) <= 1 /\ l.sibling.failed}

\* the database's answers used for file names: one synset at most
FnameLexicons == {l \in Lexicons : Len(l.senses) <= 1}

\* set_options(optionList)
SetOptions ==
    /\ gpc = "idle"
    /\ \E v \in OptionValues : _wordnet_results' = v
    /\ UNCHANGED <<gpc, word, lexicon, wn_result, seed, mutants, wn_error, loci_done>>
    /\ UNCHANGED <<rvars, dvars, evars, hvars>>

\* the call of the database that raised inside _search_wn(w) when the
\* database answered lex: the sibling traversal of line 125, or none
SiblingError(w, lex) ==
    IF ~Rejected(w) /\ lex.sibling.failed THEN "sibling" ELSE "none"

\* one call of _search_wn(word): it returns, or wn.synsets(word) of line 129
\* raises (the same call inside the try of line 125 has raised before it)
SearchWn ==
    /\ gpc = "idle"
    /\ \/ \E w \in Words : \E lex \in Lexicons :
             /\ word' = w
             /\ lexicon' = lex
             /\ wn_result' \in _search_wn(w, lex, _wordnet_results)
             /\ wn_error' = SiblingError(w, lex)
             /\ gpc' = "searched"
       \/ \E w \in Words :
             /\ ~Rejected(w)
             /\ word' = w
             /\ lexicon' = NoLexicon
             /\ wn_result' = << >>
             /\ wn_error' = "synsets"
             /\ gpc' = "raised"
    /\ UNCHANGED <<_wordnet_results, seed, mutants, loci_done>>
    /\ UNCHANGED <<rvars, dvars, evars, hvars>>

\* the caller is done with the returned value
Forget ==
    /\ gpc # "idle"
    /\ gpc' = "idle"
    /\ word' = << >>
    /\ lexicon' = NoLexicon
    /\ wn_result' = << >>
    /\ seed' = NoSeed
    /\ mutants' = << >>
    /\ wn_error' = "none"
    /\ loci_done' = 0
    /\ UNCHANGED _wordnet_results
    /\ UNCHANGED <<rvars, dvars, evars, hvars>>

\* _generate_fname(fuzzable_request): it returns the mutants, or _search_wn
\* raises and so does _generate_fname
GenerateFname ==
    /\ gpc = "idle"
    /\ \/ \E f \in Filenames : \E lex \in FnameLexicons :
             /\ seed' = [fname |-> f, qs |-> << >>]
             /\ word' = _get_filename(f)
             /\ lexicon' = lex
             /\ wn_result' \in _search_wn(_get_filename(f), lex, _wordnet_results)
             /\ mutants' = GenerateFnameMutants(seed', wn_result')
             /\ wn_error' = SiblingError(_get_filename(f), lex)
             /\ gpc' = "fname"
       \/ \E f \in Filenames :
             /\ ~Rejected(_get_filename(f))
             /\ seed' = [fname |-> f, qs |-> << >>]
             /\ word' = _get_filename(f)
             /\ lexicon' = NoLexicon
             /\ wn_result' = << >>
             /\ mutants' = << >>
             /\ wn_error' = "synsets"
             /\ gpc' = "raised"
    /\ UNCHANGED <<_wordnet_results, loci_done>>
    /\ UNCHANGED <<rvars, dvars, evars, hvars>>

\* _generate_qs(fuzzable_request), iterated to its end: every locus is gone
\* through, or _search_wn raises at the first value the database is down for
\* and the iteration ends there with the exception
GenerateQs ==
    /\ gpc = "idle"
    /\ \E q \in QueryStrings : \E f \in {Report} :
       \E prov \in [{Summary, Report, <<"4", "2">>} -> QsLexicons] :
       \E down \in SUBSET {Summary, Report} :
          LET fr   == [fname |-> f, qs |-> q]
              stop == FirstFailure(fr, down)
          IN  /\ seed' = fr
              /\ mutants' \in GenerateQsFrom(fr, prov, _wordnet_results, 1, stop)
              /\ \/ /\ stop = 0
                    /\ loci_done' = Len(Loci(q))
                    /\ wn_error' = IF \E n \in 1..Len(Loci(q)) :
                                        ~Rejected(q[Loci(q)[n][1]].values[Loci(q)[n][2]])
                                   THEN "sibling" ELSE "none"
                    /\ gpc' = "qs"
                 \/ /\ stop > 0
                    /\ loci_done' = stop - 1
                    /\ wn_error' = "synsets"
                    /\ gpc' = "raised"
    /\ UNCHANGED <<_wordnet_results, word, lexicon, wn_result>>
    /\ UNCHANGED <<rvars, dvars, evars, hvars>>

NextGenerate ==
    \/ SetOptions
    \/ SearchWn
    \/ GenerateFname
    \/ GenerateQs
    \/ Forget

(***************************************************************************)
(* reversed_slashes: modifyRequest.  URL objects live on a heap            *)
(* (url_objects); a request refers to its URL object by index, so that a   *)
(* change made through one reference is seen through every other.          *)
(***************************************************************************)
MaxPath == 4

PathChars == {"/", "\\", "a", "."}

\* the paths of parsed http URLs: they begin with a slash
Paths ==
    {p \in UNION {[1..n -> PathChars] : n \in 1..MaxPath} : p[1] = "/"}

SchemeAndHost ==
    <<"h", "t", "t", "p", ":", "/", "/", "w", "w", "w", ".", "w", "3", "a", "f", ".", "c", "o", "m">>

\* url_object.url_string
url_string(u) == SchemeAndHost \o u.path

\* str.replace(old, new, 1): only the first occurrence, looked for from i on
RECURSIVE ReplaceFirstFrom(_, _, _, _)
ReplaceFirstFrom(s, old, new, i) ==
    IF i > Len(s) THEN << >>
    ELSE IF LitAt(old, s, i)
         THEN new \o SubSeq(s, i + Len(old), Len(s))
         ELSE << s[i] >> \o ReplaceFirstFrom(s, old, new, i + 1)

\* line 75: path.replace('/', '\\').replace('\\', '/', 1)
ReversedPath(path) ==
    ReplaceFirstFrom(Replace(path, <<"/">>, <<"\\">>), <<"\\">>, <<"/">>, 1)

NoRequest == [url_object |-> 0, data |-> "none", headers |-> "none"]

InitEvasion ==
    /\ epc = "idle"
    /\ url_objects = << >>
    /\ request = NoRequest
    /\ new_req = NoRequest
    /\ url_before = << >>

\* u = url_object(...); r = HTTPRequest(u)
NewRequest ==
    /\ epc = "idle"
    /\ \E p \in Paths :
          /\ url_objects' = << [path |-> p] >>
          /\ url_before' = url_string([path |-> p])
    /\ request' = [url_object |-> 1, data |-> "data", headers |-> "headers"]
    /\ new_req' = NoRequest
    /\ epc' = "made"
    /\ UNCHANGED <<rvars, gvars, dvars, hvars>>

\* a variant that sets the path on the URL object of the request itself
ModifyRequestInPlace ==
    /\ epc = "made"
    /\ LET path == ReversedPath(url_objects[request.url_object].path)
       IN  url_objects' = [url_objects EXCEPT ![request.url_object].path = path]
    /\ new_req' = request
    /\ epc' = "modified"
    /\ UNCHANGED <<request, url_before>>
    /\ UNCHANGED <<rvars, gvars, dvars, hvars>>

\* modifyRequest(request): the path is mangled, the URL object is copied, the
\* path is set on the copy, and a new request is built around the copy
ModifyRequest ==
    /\ epc = "made"
    /\ LET path    == ReversedPath(url_objects[request.url_object].path)
           new_url == Len(url_objects) + 1
       IN  /\ url_objects' = Append(url_objects, [path |-> path])
           /\ new_req' = [url_object |-> new_url,
                          data |-> request.data, headers |-> request.headers]
    /\ epc' = "modified"
    /\ UNCHANGED <<request, url_before>>
    /\ UNCHANGED <<rvars, gvars, dvars, hvars>>

\* the caller drops both requests
DropRequests ==
    /\ epc = "modified"
    /\ epc' = "idle"
    /\ url_objects' = << >>
    /\ request' = NoRequest
    /\ new_req' = NoRequest
    /\ url_before' = << >>
    /\ UNCHANGED <<rvars, gvars, dvars, hvars>>

NextEvasion ==
    \/ NewRequest
    \/ ModifyRequest
    \/ DropRequests

(***************************************************************************)
(* hmap: discover is called again and again on one plugin instance; the    *)
(* fingerprinting routine originalHmap.testServer is an outside call whose *)
(* outcome is an input.                                                    *)
(***************************************************************************)
MaxCalls == 4

\* url.getProtocol() and url.getNetLocation() of the fuzzable request
HmapUrls ==
    [protocol : {"http", "https"},
     netloc   : { <<"h">>,
                  <<"h", ":", "8", "0", "8", "0">>,
                  <<"h", ":", "0", "8", "0">>,
                  <<"h", ":">>,
                  <<"h", ":", "x">> }]

\* what testServer does: it raises w3afException, it raises another
\* Exception, or it returns a list of server names, best match first
TestServerOutcomes ==
    { [raised |-> "w3afException", results |-> << >>],
      [raised |-> "Exception",     results |-> << >>],
      [raised |-> "none",          results |-> << >>],
      [raised |-> "none",          results |-> <<"Apache">>],
      [raised |-> "none",          results |-> <<"IIS", "Apache">>] }

DigitValue(c) ==
    CASE c = "0" -> 0 [] c = "1" -> 1 [] c = "2" -> 2 [] c = "3" -> 3
      [] c = "4" -> 4 [] c = "5" -> 5 [] c = "6" -> 6 [] c = "7" -> 7
      [] c = "8" -> 8 [] c = "9" -> 9

\* int(s) for a text of digits
RECURSIVE ParseInt(_)
ParseInt(s) ==
    IF s = << >> THEN 0
    ELSE 10 * ParseInt(SubSeq(s, 1, Len(s) - 1)) + DigitValue(s[Len(s)])

\* int(s) raises ValueError for a text that is empty or holds another character
IntRaises(s) == ~IsDigit(s)

\* lines 77-88: ssl, server and port for a URL; the port text is what int()
\* is called with when the network location holds a colon
Target(url) ==
    LET ssl   == url.protocol = "https"
        colon == \E k \in 1..Len(url.netloc) : url.netloc[k] = ":"
        parts == Split(url.netloc, ":")
    IN  [ssl    |-> ssl,
         raises |-> colon /\ IntRaises(parts[2]),
         port   |-> IF colon
                    THEN (IF IntRaises(parts[2]) THEN 0 ELSE ParseInt(parts[2]))
                    ELSE (IF ssl THEN 443 ELSE 80),
         server |-> IF colon THEN parts[1] ELSE url.netloc]

InitHmap ==
    /\ _run_hmap = FALSE
    /\ _exec = TRUE
    /\ _genFpF = FALSE
    /\ outcomes = << >>
    /\ test_server_log = << >>
    /\ hmap_kb = << >>

\* set_options(optionsMap)
SetGenFpF ==
    /\ \E v \in BOOLEAN : _genFpF' = v
    /\ UNCHANGED <<_run_hmap, _exec, outcomes, test_server_log, hmap_kb>>
    /\ UNCHANGED <<rvars, gvars, dvars, evars>>

\* a variant that runs the fingerprinting whatever _run_hmap is
ShouldRunAlways(run_hmap) == TRUE

\* line 67: if not self._run_hmap
ShouldRun(run_hmap) == ~run_hmap

\* one call of discover(fuzzable_request), from its first line to its return
\* or to the exception that leaves it
Discover ==
    /\ Len(outcomes) < MaxCalls
    /\ \E url \in HmapUrls : \E r \in TestServerOutcomes :
       LET call == Len(outcomes) + 1
           t    == Target(url)
       IN  IF ~_exec
           THEN /\ outcomes' = Append(outcomes, "w3afRunOnce")
                /\ UNCHANGED <<_run_hmap, _exec, test_server_log, hmap_kb>>
           ELSE /\ _exec' = IF _run_hmap THEN FALSE ELSE _exec
                /\ IF ShouldRun(_run_hmap)
                   THEN /\ _run_hmap' = TRUE
                        /\ IF t.raises
                           THEN /\ outcomes' = Append(outcomes, "ValueError")
                                /\ UNCHANGED <<test_server_log, hmap_kb>>
                           ELSE /\ test_server_log' =
                                      Append(test_server_log,
                                             [call |-> call, ssl |-> t.ssl, server |-> t.server,
                                              port |-> t.port, genFpF |-> _genFpF, outcome |-> r])
                                /\ hmap_kb' =
                                      IF r.raised = "none" /\ Len(r.results) > 0
                                      THEN Append(hmap_kb, [call |-> call,
                                                            serverString |-> r.results[1]])
                                      ELSE hmap_kb
                                /\ outcomes' = Append(outcomes, "returned")
                   ELSE /\ outcomes' = Append(outcomes, "returned")
                        /\ UNCHANGED <<_run_hmap, test_server_log, hmap_kb>>
    /\ UNCHANGED _genFpF
    /\ UNCHANGED <<rvars, gvars, dvars, evars>>

NextHmap ==
    \/ SetGenFpF
    \/ Discover

(***************************************************************************)
(* A probing round.  The worker pool (_send_mutants_in_threads for the     *)
(* audit, threadpool.map_multi_args for the crawl) sends the mutants of    *)
(* one request; a failed send is recorded and its mutant is skipped.       *)
(***************************************************************************)
NumMutants == 3
PoolSize == 2

Items == 1..NumMutants

\* createMutants(freq, self.TEST_URLS): two mutants, one for each test URL,
\* for every parameter of the request
ParamNames == <<"url", "next", "goto", "to">>

ItemVar(m) == ParamNames[(m + 1) \div 2]

NoBody == << >>

\* _find_redirect(response) as a whole: the "or" chain returns True at the
\* first true operand; when all four are false it calls the undefined
\* self._http_equiv_redirect
_find_redirect(r) ==
    IF \/ _30x_code_redirect(getLowerCaseHeaders(r.headers))
       \/ _refresh_redirect(getLowerCaseHeaders(r.headers))
       \/ _meta_redirect(r.parser)
       \/ _javascript_redirect(RenderBody(r.segs))
    THEN "True"
    ELSE "AttributeError"

\* the responses of an audit round: one that redirects to a test URL, one
\* that does not
AuditResponses ==
    { [headers |-> [n \in {"Location"} |->
                      <<"/", "/", "w", "3", "a", "f", ".", "o", "r", "g">>],
       parser  |-> [ok |-> FALSE, redirs |-> << >>],
       segs    |-> << >>],
      NoResponse }

SimilarityThreshold == 85

Max(a, b) == IF a >= b THEN a ELSE b

Min3(a, b, c) == IF a <= b /\ a <= c THEN a ELSE IF b <= c THEN b ELSE c

\* the edit distance of the first i characters of a and the first j of b
RECURSIVE EditDistance(_, _, _, _)
EditDistance(a, b, i, j) ==
    IF i = 0 THEN j
    ELSE IF j = 0 THEN i
    ELSE IF a[i] = b[j] THEN EditDistance(a, b, i - 1, j - 1)
    ELSE 1 + Min3(EditDistance(a, b, i - 1, j),
                  EditDistance(a, b, i, j - 1),
                  EditDistance(a, b, i - 1, j - 1))

\* relative_distance_lt(a, b, 0.85): the similarity of the two texts, 1 minus
\* their edit distance over the longer length, is below the threshold
relative_distance_lt(a, b) ==
    LET longer == Max(Len(a), Len(b))
    IN  /\ longer > 0
        /\ 100 * (longer - EditDistance(a, b, Len(a), Len(b))) < SimilarityThreshold * longer

\* a variant of the test of _check_existance that forgets the 404 detector
IsNewIgnoring404(original, r) == relative_distance_lt(original.body, r.body)

\* the test of _check_existance, lines 70-71
IsNewResource(original, r) ==
    ~r.is_404 /\ relative_distance_lt(original.body, r.body)

CrawlBodies ==
    { <<"a", "a", "a", "a", "a", "a", "a">>,
      <<"a", "a", "a", "a", "a", "a", "b">>,
      <<"a", "a", "a", "a", "a", "b", "b">>,
      <<"b", "b", "b">>,
      << >> }

CrawlResponses == [is_404 : BOOLEAN, body : CrawlBodies]

\* the two responses the pool is run on in a crawl round
PoolCrawlResponses ==
    { [is_404 |-> FALSE, body |-> <<"b", "b", "b">>],
      [is_404 |-> TRUE,  body |-> <<"b", "b", "b">>] }

NoCrawlResponse == [is_404 |-> TRUE, body |-> NoBody]

\* no response has been received for the mutant
NoReply == [received |-> FALSE]

InitDispatch ==
    /\ round = "none"
    /\ item = [m \in Items |-> "queued"]
    /\ resp = [m \in Items |-> NoReply]
    /\ original_response = NoCrawlResponse
    /\ output_queue = << >>
    /\ failures = 0
    /\ aborted = FALSE

Init == InitRedirect /\ InitGenerate /\ InitDispatch /\ InitEvasion /\ InitHmap

InFlight == {m \in Items : item[m] \in {"sending", "received", "analysing"}}

\* global_redirect.audit: the mutants are handed to the pool
Audit ==
    /\ round = "none"
    /\ round' = "audit"
    /\ UNCHANGED <<item, resp, original_response, output_queue, failures, aborted>>
    /\ UNCHANGED <<rvars, gvars, evars, hvars>>

\* wordnet.crawl, lines 52-61: the unmutated request is sent first; when that
\* send fails the exception leaves crawl before any mutant is sent
Crawl ==
    /\ round = "none"
    /\ round' = "crawl"
    /\ \/ /\ \E body \in CrawlBodies :
               original_response' = [is_404 |-> FALSE, body |-> body]
          /\ UNCHANGED aborted
       \/ /\ aborted' = TRUE
          /\ UNCHANGED original_response
    /\ UNCHANGED <<item, resp, output_queue, failures>>
    /\ UNCHANGED <<rvars, gvars, evars, hvars>>

\* a free worker takes the next mutant and starts to send it
WorkerTake(m) ==
    /\ round # "none"
    /\ ~aborted
    /\ item[m] = "queued"
    /\ Cardinality(InFlight) < PoolSize
    /\ item' = [item EXCEPT ![m] = "sending"]
    /\ UNCHANGED <<round, resp, original_response, output_queue, failures, aborted>>
    /\ UNCHANGED <<rvars, gvars, evars, hvars>>

\* send_mutant returns a response
SendOk(m) ==
    /\ item[m] = "sending"
    /\ \E r \in IF round = "audit" THEN AuditResponses ELSE PoolCrawlResponses :
          resp' = [resp EXCEPT ![m] = r]
    /\ item' = [item EXCEPT ![m] = "received"]
    /\ UNCHANGED <<round, original_response, output_queue, failures, aborted>>
    /\ UNCHANGED <<rvars, gvars, evars, hvars>>

\* send_mutant raises (a timeout, a connection error): in _check_existance
\* the exception leaves the method at line 69, before the test of line 70;
\* the pool records the failure and goes on
SendFail(m) ==
    /\ item[m] = "sending"
    /\ item' = [item EXCEPT ![m] = "failed"]
    /\ failures' = failures + 1
    /\ UNCHANGED <<round, resp, original_response, output_queue, aborted>>
    /\ UNCHANGED <<rvars, gvars, evars, hvars>>

\* the analysis of a received response begins: the audit's callback
\* _analyze_result is called by the pool, one call at a time; the crawl's
\* _check_existance just goes on from line 69 to line 70 in its worker
BeginAnalyse(m) ==
    /\ item[m] = "received"
    /\ ~aborted
    /\ round = "audit" => \A o \in Items : item[o] # "analysing"
    /\ item' = [item EXCEPT ![m] = "analysing"]
    /\ UNCHANGED <<round, resp, original_response, output_queue, failures, aborted>>
    /\ UNCHANGED <<rvars, gvars, evars, hvars>>

\* _analyze_result(mutant, response) ends: a finding is stored, or the
\* AttributeError of _find_redirect leaves the callback and the round
EndAnalyseAudit(m) ==
    /\ round = "audit"
    /\ item[m] = "analysing"
    /\ IF _find_redirect(resp[m]) = "True"
       THEN /\ item' = [item EXCEPT ![m] = "done"]
            /\ kb' = IF _has_no_bug(ItemVar(m), kb)
                     THEN Append(kb, [var |-> ItemVar(m), id |-> m])
                     ELSE kb
            /\ UNCHANGED aborted
       ELSE /\ item' = [item EXCEPT ![m] = "raised"]
            /\ aborted' = TRUE
            /\ UNCHANGED kb
    /\ UNCHANGED <<round, resp, original_response, output_queue, failures>>
    /\ UNCHANGED <<pc, response, mutant, evaluated, verdict>>
    /\ UNCHANGED <<gvars, evars, hvars>>

\* _check_existance, lines 70-73: the new fuzzable request of an interesting
\* response is put on the output queue
EndAnalyseCrawl(m) ==
    /\ round = "crawl"
    /\ item[m] = "analysing"
    /\ item' = [item EXCEPT ![m] = "done"]
    /\ output_queue' = IF IsNewResource(original_response, resp[m])
                       THEN Append(output_queue, m)
                       ELSE output_queue
    /\ UNCHANGED <<round, resp, original_response, failures, aborted>>
    /\ UNCHANGED <<rvars, gvars, evars, hvars>>

\* _check_existance(original_response, mutant) from its first line to its
\* last, the mutants taken in the order of the argument list: the send, the
\* test and the put; a send that raises leaves the method at line 69
CheckExistance(m) ==
    /\ round = "crawl"
    /\ ~aborted
    /\ item[m] = "queued"
    /\ \A o \in Items : o < m => item[o] # "queued"
    /\ \/ \E r \in CrawlResponses :
             /\ resp' = [resp EXCEPT ![m] = r]
             /\ item' = [item EXCEPT ![m] = "done"]
             /\ output_queue' = IF IsNewResource(original_response, r)
                                THEN Append(output_queue, m)
                                ELSE output_queue
             /\ UNCHANGED failures
       \/ /\ item' = [item EXCEPT ![m] = "failed"]
          /\ failures' = failures + 1
          /\ UNCHANGED <<resp, output_queue>>
    /\ UNCHANGED <<round, original_response, aborted>>
    /\ UNCHANGED <<rvars, gvars, evars, hvars>>

NextDiscovery ==
    \/ Crawl
    \/ \E m \in Items : CheckExistance(m)

SpecDiscovery == Init /\ [][NextDiscovery]_vars

NextDispatch ==
    \/ Audit
    \/ Crawl
    \/ \E m \in Items : WorkerTake(m)
    \/ \E m \in Items : SendOk(m)
    \/ \E m \in Items : SendFail(m)
    \/ \E m \in Items : BeginAnalyse(m)
    \/ \E m \in Items : EndAnalyseAudit(m)
    \/ \E m \in Items : EndAnalyseCrawl(m)

SpecDispatch == Init /\ [][NextDispatch]_vars

SpecGenerate == Init /\ [][NextGenerate]_vars

NextRedirect ==
    \/ SendMutant
    \/ AnalyzeDone
    \/ Eval30x
    \/ EvalRefresh
    \/ EvalMeta
    \/ EvalJavascript
    \/ EvalHttpEquiv

SpecRedirect == Init /\ [][NextRedirect]_vars

SpecEvasion == Init /\ [][NextEvasion]_vars

SpecHmap == Init /\ [][NextHmap]_vars

(***************************************************************************)
(* Properties of the redirect classifier                                   *)
(***************************************************************************)
SignalOrder == <<"30x", "refresh", "meta", "javascript">>

SignalHolds(k, r) ==
    CASE k = 1 -> _30x_code_redirect(getLowerCaseHeaders(r.headers))
      [] k = 2 -> _refresh_redirect(getLowerCaseHeaders(r.headers))
      [] k = 3 -> _meta_redirect(r.parser)
      [] k = 4 -> _javascript_redirect(RenderBody(r.segs))

Analysing == pc \notin {"send"}

\* C1: the signals are evaluated in the order location/uri header, refresh
\* header, meta-refresh, script; when a signal is true on the response, no
\* later signal is ever evaluated and the verdict, once returned, is true.
C1_ShortCircuit ==
    Analysing =>
        /\ \A n \in 1..Len(evaluated) :
              n <= Len(SignalOrder) => evaluated[n] = SignalOrder[n]
        /\ \A k \in 1..Len(SignalOrder) :
              SignalHolds(k, response) =>
                 /\ Len(evaluated) <= k
                 /\ pc = "done" => verdict = "True"
                 /\ pc # "error"

\* a response whose location header matches and whose parser and body would
\* match too: only the first signal was evaluated
C1_Witness ==
    /\ pc = "done"
    /\ verdict = "True"
    /\ evaluated = <<"30x">>
    /\ SignalHolds(1, response)
    /\ SignalHolds(3, response)
    /\ SignalHolds(4, response)

NoSignal(r) == \A k \in 1..Len(SignalOrder) : ~SignalHolds(k, r)

\* C2: when no signal matches the response, the classifier returns false,
\* no finding is recorded for the mutant, and the analysis never ends in an
\* error.
C2_NoSignalIsFalse ==
    (Analysing /\ NoSignal(response)) =>
        /\ pc # "error"
        /\ pc = "done" => verdict = "False"
        /\ \A n \in 1..Len(kb) : kb[n].id # mutant

\* the statements of a block: maximal runs of fragments without ";" or newline
SameStatement(code, a, b) ==
    \A n \in a..b : code[n] \notin {"SEMI", "NL"}

\* a block with a statement that holds window.location or location. and,
\* later in the statement, one of the test URLs
BlockRedirects(seg) ==
    /\ seg.kind \in {"script", "script2"}
    /\ \E a, b \in 1..Len(seg.code) :
          /\ a < b
          /\ seg.code[a] \in {"LOC1", "LOC2"}
          /\ seg.code[b] \in {"URL1", "URL2"}
          /\ SameStatement(seg.code, a, b)

\* the body holds no near miss of a test URL
PlainUrls(segs) ==
    \A n \in 1..Len(segs) : \A a \in 1..Len(segs[n].code) : segs[n].code[a] # "URLX"

ScriptSignalTrue == Len(evaluated) = 4 /\ verdict = "True"

\* C3: the script signal is true exactly when some script block of the body,
\* any of them, holds a redirecting statement; the text outside every script
\* block does not count.
C3_AnyScriptBlock ==
    (Analysing /\ Len(evaluated) >= 4 /\ PlainUrls(response.segs)) =>
        (ScriptSignalTrue <=> \E n \in 1..Len(response.segs) :
                                   BlockRedirects(response.segs[n]))

\* C9: the status-line signal is true exactly when the response has a header
\* whose name is location or uri in any letter case and whose value begins
\* with one of the test URLs, compared character by character.
HasRedirectHeader(headers) ==
    \E n \in DOMAIN headers :
        /\ n \in {"Location", "location", "URI", "uri"}
        /\ \E t \in TEST_URLS :
              /\ Len(headers[n]) >= Len(t)
              /\ SubSeq(headers[n], 1, Len(t)) = t

StatusSignalTrue == evaluated = <<"30x">> /\ verdict = "True"

C9_StatusLineRedirect ==
    (Analysing /\ Len(evaluated) >= 1) =>
        (StatusSignalTrue <=> HasRedirectHeader(response.headers))

\* "URI: http://www.w3af.org/evil" alone makes the signal true
C9_Witness ==
    /\ StatusSignalTrue
    /\ DOMAIN response.headers = {"URI"}
    /\ response.headers["URI"] =
          <<"h", "t", "t", "p", ":", "/", "/", "w", "w", "w", ".", "w", "3", "a", "f", ".", "o", "r", "g", "/", "e", "v", "i", "l">>


(***************************************************************************)
(* Properties of wordnet                                                   *)
(***************************************************************************)
\* C10: whatever the database answers, the list _search_wn returns holds no
\* word twice and does not hold the word it was called with.
C10_NoDuplicatesNoSelf ==
    gpc = "searched" =>
        /\ \A a, b \in 1..Len(wn_result) : wn_result[a] = wn_result[b] => a = b
        /\ \A a \in 1..Len(wn_result) : wn_result[a] # word

\* the database answered with the same synset twice, with two synsets of one
\* surface word, and with the word itself; something else was returned
C10_Witness ==
    /\ gpc = "searched"
    /\ word = Summary
    /\ Len(lexicon.senses) = 2
    /\ lexicon.senses[1].name = lexicon.senses[2].name
    /\ SurfaceWord(lexicon.senses[1].name) = word
    /\ lexicon.senses[1].related # << >>
    /\ lexicon.senses[1].related[1] # lexicon.senses[1].name
    /\ SurfaceWord(lexicon.senses[1].related[1]) = word
    /\ lexicon.senses[2].related # << >>
    /\ wn_result # << >>

\* the file name with only its name portion replaced: the candidate, then the rest of the
\* original file name from its first dot on
FromFirstDot(fname) ==
    IF \E k \in 1..Len(fname) : fname[k] = "."
    THEN SubSeq(fname, CHOOSE k \in 1..Len(fname) :
                          fname[k] = "." /\ \A j \in 1..(k - 1) : fname[j] # ".",
                Len(fname))
    ELSE << >>

\* C4: the file name of a path-filename mutant is the candidate word followed
\* by the rest of the original file name (report.v2.pdf with summary gives
\* summary.v2.pdf, report with summary gives summary).
C4_NamePortionReplaced ==
    (gpc = "fname" /\ seed.fname # << >>) =>
        \A k \in 1..Len(mutants) :
            mutants[k].fname = wn_result[k] \o FromFirstDot(seed.fname)

\* C5: a mutant made for the locus (parameter, occurrence) differs from the
\* seed in the value at that occurrence only.
C5_OnlyTheLocusChanges ==
    gpc = "qs" =>
        \A k \in 1..Len(mutants) :
            /\ mutants[k].fname = seed.fname
            /\ Len(mutants[k].qs) = Len(seed.qs)
            /\ \A p \in 1..Len(seed.qs) :
                  /\ mutants[k].qs[p].name = seed.qs[p].name
                  /\ Len(mutants[k].qs[p].values) = Len(seed.qs[p].values)
                  /\ \A i \in 1..Len(seed.qs[p].values) :
                        <<p, i>> # mutants[k].locus =>
                            mutants[k].qs[p].values[i] = seed.qs[p].values[i]


(***************************************************************************)
(* Properties of a probing round                                           *)
(***************************************************************************)
Invoked(m) == item[m] \in {"analysing", "done", "raised"}

Failed == {m \in Items : item[m] = "failed"}

\* the round is over: the pool has nothing left it can do
RoundOver == round # "none" /\ ~ENABLED NextDispatch

\* C6: a failed send does not abort the round: the analyser is never called
\* more often than sends have succeeded, never for a failed mutant, and when
\* the round is over with exactly one failed send, every other mutant has
\* been analysed and one failure is recorded.
C6_OneFailureDoesNotAbort ==
    /\ Cardinality({m \in Items : Invoked(m)})
          <= Cardinality({m \in Items : resp[m] # NoReply})
    /\ \A m \in Failed : resp[m] = NoReply
    /\ (RoundOver /\ Cardinality(Failed) = 1) =>
          /\ failures = 1
          /\ \A m \in Items \ Failed : item[m] \in {"done", "raised"}

\* C7: at most one worker at a time is inside the classification-and-record
\* step.
C7_MutualExclusion ==
    Cardinality({m \in Items : item[m] = "analysing"}) <= 1


Reported(m) == \E n \in 1..Len(output_queue) : output_queue[n] = m

\* the two bodies have no character in common
WhollyDifferent(a, b) ==
    /\ a # b
    /\ \A i \in 1..Len(a) : \A j \in 1..Len(b) : a[i] # b[j]

\* C8: a candidate is reported as a new resource exactly when the 404
\* detector does not flag it and its body's similarity to the baseline body
\* is below 0.85; a body identical to the baseline is never reported, a
\* candidate flagged as 404 is never reported, and a candidate that is not a
\* 404 and has a wholly different body is reported.
C8_NewResource ==
    \A m \in Items :
        (round = "crawl" /\ item[m] = "done") =>
            /\ Reported(m) <=>
                  (~resp[m].is_404
                     /\ relative_distance_lt(original_response.body, resp[m].body))
            /\ resp[m].body = original_response.body => ~Reported(m)
            /\ resp[m].is_404 => ~Reported(m)
            /\ (~resp[m].is_404
                  /\ WhollyDifferent(original_response.body, resp[m].body)) => Reported(m)

\* one candidate with a wholly different body and no 404 flag was reported,
\* one flagged as 404 with the same wholly different body was not, and one
\* that differs from the baseline in one character of seven was not
C8_Witness ==
    /\ round = "crawl"
    /\ \A m \in 1..3 : item[m] = "done"
    /\ original_response.body = <<"a", "a", "a", "a", "a", "a", "a">>
    /\ resp[1] = [is_404 |-> FALSE, body |-> <<"b", "b", "b">>]
    /\ resp[2] = [is_404 |-> TRUE, body |-> <<"b", "b", "b">>]
    /\ resp[3] = [is_404 |-> FALSE, body |-> <<"a", "a", "a", "a", "a", "a", "b">>]
    /\ output_queue = <<1>>

\* the de-duplicated candidate collection of a word: the surface words of the
\* synsets collected for it, without the word itself; a word that is empty or
\* all digits is rejected before the database is asked
Candidates(w, lex) ==
    IF w = << >> \/ IsDigit(w) THEN {}
    ELSE {SurfaceWord(n) : n \in Range(CollectSynsets(lex))} \ {w}

\* C11: the list _search_wn returns is ordered by non-decreasing length and
\* is a first-_wordnet_results cut of the length-ranked, de-duplicated
\* candidates: it holds candidates only, as many as there are up to
\* _wordnet_results (5 unless set_options changed it), and no candidate left
\* out is strictly shorter than one returned.
C11_RankedAndTruncated ==
    gpc = "searched" =>
        LET cands == Candidates(word, lexicon)
        IN  /\ Len(wn_result) <= _wordnet_results
            /\ Len(wn_result) = IF Cardinality(cands) < _wordnet_results
                                THEN Cardinality(cands) ELSE _wordnet_results
            /\ Range(wn_result) \subseteq cands
            /\ \A a, b \in 1..Len(wn_result) :
                  a < b => Len(wn_result[a]) <= Len(wn_result[b])
            /\ \A c \in cands \ Range(wn_result) : \A k \in 1..Len(wn_result) :
                  Len(c) >= Len(wn_result[k])

\* three candidates for a limit of two: the two of seven characters were
\* returned, the one of thirteen was cut off
C11_Witness ==
    /\ gpc = "searched"
    /\ _wordnet_results = 2
    /\ word = Report
    /\ Cardinality(Candidates(word, lexicon)) = 3
    /\ Len(wn_result) = 2
    /\ \E c \in Candidates(word, lexicon) \ Range(wn_result) : Len(c) > Len(wn_result[2])

\* the index of the first slash of a path, 0 when it has none
FirstSlash(path) ==
    IF \E k \in 1..Len(path) : path[k] = "/"
    THEN CHOOSE k \in 1..Len(path) :
            path[k] = "/" /\ \A j \in 1..(k - 1) : path[j] # "/"
    ELSE 0

\* the path with every slash but the first turned into a backslash
AllButFirstSlashReversed(path) ==
    [k \in 1..Len(path) |->
        IF path[k] = "/" /\ k # FirstSlash(path) THEN "\\" ELSE path[k]]

C13_ProviderFailureTolerated ==
    wn_error # "none" =>
        /\ gpc \in {"searched", "fname", "qs"}
        /\ gpc = "qs" => loci_done = Len(Loci(seed.qs))

\* a test URL stands in the text, character for character
ContainsTestUrl(text) ==
    \E i \in 1..Len(text) : \E test_url \in TEST_URLS : LitAt(test_url, text, i)

\* C14: the test URLs are compared literally in every signal: a response
\* whose header values, meta-refresh directives and body nowhere hold a test
\* URL character for character (as with http://wwwXw3af.org/ in a script
\* statement) is not classified as a redirect.
C14_LiteralComparison ==
    (pc = "done" /\ verdict = "True") =>
        \/ \E n \in DOMAIN response.headers : ContainsTestUrl(response.headers[n])
        \/ \E r \in 1..Len(response.parser.redirs) :
              ContainsTestUrl(response.parser.redirs[r])
        \/ ContainsTestUrl(RenderBody(response.segs))

\* C15: over any sequence of discover calls on one hmap instance, testServer
\* is called at most once and by the first discover call only, whether it
\* raised or returned; the second call does nothing and raises nothing; every
\* call from the third on raises w3afRunOnce; and the fingerprint is saved in
\* the knowledge base at most once, and only when testServer returned a
\* non-empty result without raising.
C15_RunOnce ==
    /\ Len(test_server_log) <= 1
    /\ \A k \in 1..Len(test_server_log) : test_server_log[k].call = 1
    /\ Len(outcomes) >= 2 => outcomes[2] = "returned"
    /\ \A c \in 3..Len(outcomes) : outcomes[c] = "w3afRunOnce"
    /\ Len(hmap_kb) <= 1
    /\ \A k \in 1..Len(hmap_kb) : \E e \in 1..Len(test_server_log) :
          /\ test_server_log[e].call = hmap_kb[k].call
          /\ test_server_log[e].outcome.raised = "none"
          /\ test_server_log[e].outcome.results # << >>
          /\ hmap_kb[k].serverString = test_server_log[e].outcome.results[1]
    /\ (\E e \in 1..Len(test_server_log) :
           test_server_log[e].outcome.raised # "none"
             \/ test_server_log[e].outcome.results = << >>) => hmap_kb = << >>

\* four calls: the first ran testServer on port 8080 and saved the best
\* match, the second returned, the third and the fourth raised w3afRunOnce
C15_Witness ==
    /\ outcomes = <<"returned", "returned", "w3afRunOnce", "w3afRunOnce">>
    /\ Len(test_server_log) = 1
    /\ test_server_log[1].port = 8080
    /\ test_server_log[1].outcome.results = <<"IIS", "Apache">>
    /\ hmap_kb = << [call |-> 1, serverString |-> "IIS"] >>
    /\ ~_exec /\ _run_hmap

====
